---- MODULE Spec2Model ----
(***************************************************************************)
(* Display wrappers of ladybug_display.geometry2d._base: a geometry value  *)
(* decorated with color, display_mode, line_width and line_type, with the  *)
(* validated setters, the geometric transforms and _transfer_attributes.   *)
(*                                                                         *)
(* Python values are tagged records.  A text is the sequence of its        *)
(* characters, so that str.lower() is computed and not assumed.  Numbers   *)
(* carry their value in tenths, so that 0.5 and 2 == 2.0 can be told.      *)
(* assert statements are executed (the interpreter's default mode).        *)
(***************************************************************************)
EXTENDS Integers, Sequences, FiniteSets, TLC

VARIABLES x, y, lastOp

vars == <<x, y, lastOp>>

(* ------------------------------ bounds -------------------------------- *)

\* longest chain of transforms applied to one geometry value
MaxTransforms == 2

\* largest whole number offered as a line width
MaxWidth == 2

(* --------------------------- Python values ---------------------------- *)

None == [t |-> "None"]

\* a slot of __slots__ that the object's class does not declare
NoSlot == [t |-> "no-slot"]

\* a keyword argument left out of a call
Omitted == [t |-> "omitted"]

Str(chars) == [t |-> "str", s |-> chars]

PyInt(n) == [t |-> "int", tenths |-> 10 * n]

PyFloat(tenths) == [t |-> "float", tenths |-> tenths]

IsNumber(v) == v.t \in {"int", "float"}

\* Python's == between two values of the model
PyEq(a, b) ==
    IF IsNumber(a) /\ IsNumber(b) THEN a.tenths = b.tenths ELSE a = b

\* ladybug.color.Color(r, g, b, a=255)
Color(r, g, b, a) == [t |-> "Color", r |-> r, g |-> g, b |-> b, a |-> a]

Color3(r, g, b) == Color(r, g, b, 255)

\* ladybug_display.altnumber.default, the "use default" sentinel
default == [t |-> "Default"]

(* -------------------------------- text -------------------------------- *)

UpperToLower ==
    [A |-> "a", B |-> "b", C |-> "c", D |-> "d", E |-> "e", F |-> "f",
     G |-> "g", H |-> "h", I |-> "i", J |-> "j", K |-> "k", L |-> "l",
     M |-> "m", N |-> "n", O |-> "o", P |-> "p", Q |-> "q", R |-> "r",
     S |-> "s", T |-> "t", U |-> "u", V |-> "v", W |-> "w", X |-> "x",
     Y |-> "y", Z |-> "z"]

LowerChar(c) == IF c \in DOMAIN UpperToLower THEN UpperToLower[c] ELSE c

\* str.lower()
Lower(chars) == [i \in 1..Len(chars) |-> LowerChar(chars[i])]

LINE_TYPES ==
    << Str(<<"C","o","n","t","i","n","u","o","u","s">>),
       Str(<<"D","a","s","h","e","d">>),
       Str(<<"D","o","t","t","e","d">>),
       Str(<<"D","a","s","h","D","o","t">>) >>

DISPLAY_MODES ==
    << Str(<<"S","u","r","f","a","c","e">>),
       Str(<<"S","u","r","f","a","c","e","W","i","t","h","E","d","g","e","s">>),
       Str(<<"W","i","r","e","f","r","a","m","e">>),
       Str(<<"P","o","i","n","t","s">>) >>

Continuous == LINE_TYPES[1]

Surface == DISPLAY_MODES[1]

(* ------------------------------- errors ------------------------------- *)

NoErr == [kind |-> "none", field |-> "", valid |-> <<>>]

Raised(kind, field, valid) == [kind |-> kind, field |-> field, valid |-> valid]

Ok(obj) == [obj |-> obj, err |-> NoErr]

Fail(obj, err) == [obj |-> obj, err |-> err]

(* ------------------------- validation helpers ------------------------- *)

\* float(value) for a number
ToFloat(value) == PyFloat(value.tenths)

\* ladybug_display.typing.float_positive(value, input_name): the value as a
\* float when it is greater than zero, a ValueError naming the field otherwise
float_positive(value, input_name) ==
    IF IsNumber(value) /\ value.tenths > 0
    THEN [val |-> ToFloat(value), err |-> NoErr]
    ELSE [val |-> None, err |-> Raised("ValueError", input_name, <<>>)]

(* ------------------------------ geometry ------------------------------ *)

\* A geometry value of ladybug_geometry is immutable; each of its operations
\* returns a new value, kept here as the term of the operations applied.
Geometry(base) == [base |-> base, ops |-> <<>>]

GeomMove(g, moving_vec) ==
    [g EXCEPT !.ops = Append(@, <<"move", moving_vec>>)]

GeomRotate(g, radians, origin) ==
    [g EXCEPT !.ops = Append(@, <<"rotate", radians, origin>>)]

GeomReflect(g, normal, origin) ==
    [g EXCEPT !.ops = Append(@, <<"reflect", normal, origin>>)]

GeomScale(g, factor, origin) ==
    [g EXCEPT !.ops = Append(@, <<"scale", factor, origin>>)]

\* math.radians(angle), in thousandths of a radian
Radians(angle) == (angle * 3141593) \div 180000

(* ---------------------------- the classes ----------------------------- *)

DisplayBase2D == "_DisplayBase2D"

SingleColorBase2D == "_SingleColorBase2D"

SingleColorModeBase2D == "_SingleColorModeBase2D"

LineCurveBase2D == "_LineCurveBase2D"

Classes == {DisplayBase2D, SingleColorBase2D, SingleColorModeBase2D, LineCurveBase2D}

\* the classes that declare, or inherit, each property
HasColor(cls) == cls \in {SingleColorBase2D, SingleColorModeBase2D, LineCurveBase2D}

HasDisplayMode(cls) == cls = SingleColorModeBase2D

HasLine(cls) == cls = LineCurveBase2D

\* object.__new__(cls): no slot is assigned yet
Blank(cls) ==
    [cls |-> cls, geometry |-> NoSlot, user_data |-> NoSlot, color |-> NoSlot,
     display_mode |-> NoSlot, line_width |-> NoSlot, line_type |-> NoSlot]

(* ------------------------------ setters ------------------------------- *)

\* color.setter with None stored as it comes, no default colour made
color_setter_keepsNone(self, value) ==
    IF value = None \/ value.t = "Color"
    THEN Ok([self EXCEPT !.color = value])
    ELSE Fail(self, Raised("AssertionError", "color", <<>>))

\* color.setter with the assignment indented under the None branch
color_setter_assignsInBranch(self, value) ==
    IF value = None
    THEN Ok([self EXCEPT !.color = Color3(0, 0, 0)])
    ELSE IF value.t = "Color"
         THEN Ok(self)
         ELSE Fail(self, Raised("AssertionError", "color", <<>>))

\* _SingleColorBase2D.color.setter
color_setter(self, value) ==
    IF value = None
    THEN Ok([self EXCEPT !.color = Color3(0, 0, 0)])
    ELSE IF value.t = "Color"
         THEN Ok([self EXCEPT !.color = value])
         ELSE Fail(self, Raised("AssertionError", "color", <<>>))

\* the for ... else loop of the two enumerated setters: the first key whose
\* lower() equals clean_input, or 0 when the loop ends without a break
RECURSIVE FirstMatch(_, _, _)
FirstMatch(keys, clean_input, i) ==
    IF i > Len(keys) THEN 0
    ELSE IF Lower(keys[i].s) = clean_input THEN i
    ELSE FirstMatch(keys, clean_input, i + 1)

\* display_mode.setter without the else of its loop: nothing is raised
display_mode_setter_noElse(self, value) ==
    IF value.t # "str"
    THEN Fail(self, Raised("AttributeError", "lower", <<>>))
    ELSE LET clean_input == Lower(value.s)
             k == FirstMatch(DISPLAY_MODES, clean_input, 1)
         IN  IF k = 0
             THEN Ok([self EXCEPT !.display_mode = value])
             ELSE Ok([self EXCEPT !.display_mode = DISPLAY_MODES[k]])

\* _SingleColorModeBase2D.display_mode.setter
display_mode_setter(self, value) ==
    IF value.t # "str"
    THEN Fail(self, Raised("AttributeError", "lower", <<>>))
    ELSE LET clean_input == Lower(value.s)
             k == FirstMatch(DISPLAY_MODES, clean_input, 1)
         IN  IF k = 0
             THEN Fail(self, Raised("ValueError", "display_mode", DISPLAY_MODES))
             ELSE Ok([self EXCEPT !.display_mode = DISPLAY_MODES[k]])

\* line_width.setter that converts the value without validating it
line_width_setter_unchecked(self, value) ==
    IF value = default
    THEN Ok([self EXCEPT !.line_width = default])
    ELSE Ok([self EXCEPT !.line_width = ToFloat(value)])

\* _LineCurveBase2D.line_width.setter
line_width_setter(self, value) ==
    IF value = default
    THEN Ok([self EXCEPT !.line_width = default])
    ELSE LET r == float_positive(value, "line width")
         IN  IF r.err # NoErr
             THEN Fail(self, r.err)
             ELSE Ok([self EXCEPT !.line_width = r.val])

\* line_type.setter without "value = key": the text is stored as typed
line_type_setter_asTyped(self, value) ==
    IF value.t # "str"
    THEN Fail(self, Raised("AttributeError", "lower", <<>>))
    ELSE LET clean_input == Lower(value.s)
             k == FirstMatch(LINE_TYPES, clean_input, 1)
         IN  IF k = 0
             THEN Fail(self, Raised("ValueError", "line_type", LINE_TYPES))
             ELSE Ok([self EXCEPT !.line_type = value])

\* _LineCurveBase2D.line_type.setter
line_type_setter(self, value) ==
    IF value.t # "str"
    THEN Fail(self, Raised("AttributeError", "lower", <<>>))
    ELSE LET clean_input == Lower(value.s)
             k == FirstMatch(LINE_TYPES, clean_input, 1)
         IN  IF k = 0
             THEN Fail(self, Raised("ValueError", "line_type", LINE_TYPES))
             ELSE Ok([self EXCEPT !.line_type = LINE_TYPES[k]])

(* ---------------------------- constructors ---------------------------- *)

\* a keyword argument, or the default the signature gives it
Arg(a, dflt) == IF a = Omitted THEN dflt ELSE a

\* _DisplayBase.__init__ through _DisplayBase2D.__init__
DisplayBase2D_init(self, geometry) ==
    Ok([self EXCEPT !.geometry = geometry, !.user_data = None])

\* _SingleColorBase2D.__init__(self, geometry, color=None)
SingleColorBase2D_init(self, geometry, color) ==
    LET r == DisplayBase2D_init(self, geometry)
    IN  color_setter(r.obj, Arg(color, None))

\* __init__ with another default for display_mode
SingleColorModeBase2D_init_otherDefault(self, geometry, color, display_mode) ==
    LET r == SingleColorBase2D_init(self, geometry, color)
    IN  IF r.err # NoErr THEN r
        ELSE display_mode_setter(r.obj, Arg(display_mode, DISPLAY_MODES[3]))

\* _SingleColorModeBase2D.__init__(self, geometry, color=None, display_mode='Surface')
SingleColorModeBase2D_init(self, geometry, color, display_mode) ==
    LET r == SingleColorBase2D_init(self, geometry, color)
    IN  IF r.err # NoErr THEN r
        ELSE display_mode_setter(r.obj, Arg(display_mode, Surface))

\* __init__ that does not pass line_width on
LineCurveBase2D_init_dropsWidth(self, geometry, color, line_width, line_type) ==
    LET r == SingleColorBase2D_init(self, geometry, color)
    IN  IF r.err # NoErr THEN r
        ELSE LET r2 == line_width_setter(r.obj, default)
             IN  IF r2.err # NoErr THEN r2
                 ELSE line_type_setter(r2.obj, Arg(line_type, Continuous))

\* _LineCurveBase2D.__init__(self, geometry, color=None, line_width=default,
\*                           line_type='Continuous')
LineCurveBase2D_init(self, geometry, color, line_width, line_type) ==
    LET r == SingleColorBase2D_init(self, geometry, color)
    IN  IF r.err # NoErr THEN r
        ELSE LET r2 == line_width_setter(r.obj, Arg(line_width, default))
             IN  IF r2.err # NoErr THEN r2
                 ELSE line_type_setter(r2.obj, Arg(line_type, Continuous))

\* cls(geometry, **args): the new object, or the error its __init__ raised
New(cls, geometry, args) ==
    CASE cls = DisplayBase2D -> DisplayBase2D_init(Blank(cls), geometry)
      [] cls = SingleColorBase2D ->
            SingleColorBase2D_init(Blank(cls), geometry, args.color)
      [] cls = SingleColorModeBase2D ->
            SingleColorModeBase2D_init(Blank(cls), geometry, args.color,
                                       args.display_mode)
      [] cls = LineCurveBase2D ->
            LineCurveBase2D_init(Blank(cls), geometry, args.color,
                                 args.line_width, args.line_type)

(* ----------------------------- transforms ----------------------------- *)

\* _DisplayBase2D.move
move(self, moving_vec) ==
    [self EXCEPT !.geometry = GeomMove(self.geometry, moving_vec)]

\* rotate that passes the angle on in degrees
rotate_degrees(self, angle, origin) ==
    [self EXCEPT !.geometry = GeomRotate(self.geometry, angle, origin)]

\* _DisplayBase2D.rotate
rotate(self, angle, origin) ==
    [self EXCEPT !.geometry = GeomRotate(self.geometry, Radians(angle), origin)]

\* _DisplayBase2D.reflect
reflect(self, normal, origin) ==
    [self EXCEPT !.geometry = GeomReflect(self.geometry, normal, origin)]

\* _DisplayBase2D.scale(self, factor, origin=None)
scale(self, factor, origin) ==
    [self EXCEPT !.geometry = GeomScale(self.geometry, factor, Arg(origin, None))]

(* ------------------------ _transfer_attributes ------------------------ *)

\* Each method returns the object and the methods that ran, the called one first.

\* _DisplayBase2D._transfer_attributes
DisplayBase2D_transfer(self, other_obj) ==
    [obj |-> self, calls |-> <<DisplayBase2D>>]

\* _SingleColorBase2D._transfer_attributes
SingleColorBase2D_transfer(self, other_obj) ==
    [obj |-> [self EXCEPT !.color = other_obj.color],
     calls |-> <<SingleColorBase2D>>]

\* _SingleColorModeBase2D._transfer_attributes
SingleColorModeBase2D_transfer(self, other_obj) ==
    [obj |-> [self EXCEPT !.color = other_obj.color,
                          !.display_mode = other_obj.display_mode],
     calls |-> <<SingleColorModeBase2D>>]

\* _transfer_attributes that leaves line_type out
LineCurveBase2D_transfer_dropsType(self, other_obj) ==
    [obj |-> [self EXCEPT !.color = other_obj.color,
                          !.line_width = other_obj.line_width],
     calls |-> <<LineCurveBase2D>>]

\* _LineCurveBase2D._transfer_attributes
LineCurveBase2D_transfer(self, other_obj) ==
    [obj |-> [self EXCEPT !.color = other_obj.color,
                          !.line_width = other_obj.line_width,
                          !.line_type = other_obj.line_type],
     calls |-> <<LineCurveBase2D>>]

\* self._transfer_attributes(other_obj), dispatched on the class of self
transfer_attributes(self, other_obj) ==
    CASE self.cls = DisplayBase2D -> DisplayBase2D_transfer(self, other_obj)
      [] self.cls = SingleColorBase2D -> SingleColorBase2D_transfer(self, other_obj)
      [] self.cls = SingleColorModeBase2D ->
            SingleColorModeBase2D_transfer(self, other_obj)
      [] self.cls = LineCurveBase2D -> LineCurveBase2D_transfer(self, other_obj)

(* ------------------------------- inputs ------------------------------- *)

Grey == Color3(100, 100, 100)

Blue == Color3(0, 0, 100)

Black == Color(0, 0, 0, 255)

\* values offered to color: the unset sentinel, two colors, a text
ColorInputs == {None, Grey, Blue, Str(<<"r","e","d">>)}

\* values offered to line_width: the sentinel, whole numbers from -1, two halves
WidthInputs ==
    {default} \cup {PyInt(i) : i \in -1..MaxWidth} \cup {PyFloat(5), PyFloat(-5)}

\* values offered to line_type: members in several casings, an unknown text,
\* the empty text, None and a number
LineTypeInputs ==
    { Str(<<"C","o","n","t","i","n","u","o","u","s">>),
      Str(<<"D","a","s","h","e","d">>),
      Str(<<"d","a","s","h","e","d">>),
      Str(<<"D","O","T","T","E","D">>),
      Str(<<"d","a","s","h","D","O","T">>),
      Str(<<"W","a","v","y">>),
      Str(<<>>),
      None,
      PyInt(5) }

\* values offered to display_mode, likewise
DisplayModeInputs ==
    { Str(<<"S","u","r","f","a","c","e">>),
      Str(<<"W","i","r","e","f","r","a","m","e">>),
      Str(<<"w","i","r","e","f","r","a","m","e">>),
      Str(<<"S","U","R","F","A","C","E","W","I","T","H","E","D","G","E","S">>),
      Str(<<"p","o","i","n","t","S">>),
      Str(<<"S","o","l","i","d">>),
      Str(<<>>),
      None,
      PyInt(5) }

NoArgs ==
    [color |-> Omitted, display_mode |-> Omitted, line_width |-> Omitted,
     line_type |-> Omitted]

\* the keyword arguments offered to a constructor: none, each one alone,
\* and the full calls of the tests
CtorArgs(cls) ==
    {NoArgs}
    \cup (IF HasColor(cls)
          THEN {[NoArgs EXCEPT !.color = c] : c \in ColorInputs} ELSE {})
    \cup (IF HasDisplayMode(cls)
          THEN {[NoArgs EXCEPT !.display_mode = m] : m \in DisplayModeInputs}
               \cup {[NoArgs EXCEPT !.color = Color(255, 0, 0, 125),
                                    !.display_mode =
                                        Str(<<"w","i","r","e","f","r","a","m","e">>)]}
          ELSE {})
    \cup (IF HasLine(cls)
          THEN {[NoArgs EXCEPT !.line_width = w] : w \in WidthInputs}
               \cup {[NoArgs EXCEPT !.line_type = l] : l \in LineTypeInputs}
               \cup {[NoArgs EXCEPT !.color = Color(255, 0, 0, 125),
                                    !.line_width = PyInt(MaxWidth),
                                    !.line_type = Str(<<"d","a","s","h","e","d">>)]}
          ELSE {})

\* the keyword arguments the other wrapper is built from
OtherArgs(cls) ==
    {a \in CtorArgs(cls) : a = NoArgs \/ a.color \notin {Omitted, None, Str(<<"r","e","d">>)}}

Vec == [t |-> "Vector2D", x |-> 1, y |-> 0]

Origin == [t |-> "Point2D", x |-> 0, y |-> 0]

Angles == {90}

Factors == {2}

UserDataInputs ==
    {None, [t |-> "dict", items |-> {}], [t |-> "dict", items |-> {<<"k", "v">>}]}

(* ------------------------------- state -------------------------------- *)

\* x: the wrapper under study;  y: another wrapper of the same class;
\* lastOp: the last call made, its argument, the error it raised and, for
\* _transfer_attributes, the methods that ran.
Op(name, on, arg, err, calls) ==
    [name |-> name, on |-> on, arg |-> arg, err |-> err, calls |-> calls]

Init ==
    \E cls \in Classes :
        /\ x = New(cls, Geometry("g"), NoArgs).obj
        /\ y = New(cls, Geometry("h"), NoArgs).obj
        /\ lastOp = Op("__init__", "x", NoArgs, NoErr, <<>>)

\* x = cls(geometry, **args); no object exists when __init__ raises
Construct(args) ==
    LET r == New(x.cls, Geometry("g"), args)
    IN  /\ x' = IF r.err = NoErr THEN r.obj ELSE x
        /\ lastOp' = Op("__init__", "x", args, r.err, <<>>)
        /\ UNCHANGED y

ConstructOther(args) ==
    LET r == New(y.cls, Geometry("h"), args)
    IN  /\ r.err = NoErr
        /\ y' = r.obj
        /\ lastOp' = Op("__init__", "y", args, r.err, <<>>)
        /\ UNCHANGED x

\* x.color = value
SetColor(value) ==
    /\ HasColor(x.cls)
    /\ LET r == color_setter(x, value)
       IN  /\ x' = r.obj
           /\ lastOp' = Op("color", "x", value, r.err, <<>>)
    /\ UNCHANGED y

\* x.display_mode = value
SetDisplayMode(value) ==
    /\ HasDisplayMode(x.cls)
    /\ LET r == display_mode_setter(x, value)
       IN  /\ x' = r.obj
           /\ lastOp' = Op("display_mode", "x", value, r.err, <<>>)
    /\ UNCHANGED y

\* x.line_width = value
SetLineWidth(value) ==
    /\ HasLine(x.cls)
    /\ LET r == line_width_setter(x, value)
       IN  /\ x' = r.obj
           /\ lastOp' = Op("line_width", "x", value, r.err, <<>>)
    /\ UNCHANGED y

\* x.line_type = value
SetLineType(value) ==
    /\ HasLine(x.cls)
    /\ LET r == line_type_setter(x, value)
       IN  /\ x' = r.obj
           /\ lastOp' = Op("line_type", "x", value, r.err, <<>>)
    /\ UNCHANGED y

\* x.user_data = value
SetUserData(value) ==
    /\ x' = [x EXCEPT !.user_data = value]
    /\ lastOp' = Op("user_data", "x", value, NoErr, <<>>)
    /\ UNCHANGED y

CanTransform == Len(x.geometry.ops) < MaxTransforms

Move(moving_vec) ==
    /\ CanTransform
    /\ x' = move(x, moving_vec)
    /\ lastOp' = Op("move", "x", <<moving_vec>>, NoErr, <<>>)
    /\ UNCHANGED y

Rotate(angle, origin) ==
    /\ CanTransform
    /\ x' = rotate(x, angle, origin)
    /\ lastOp' = Op("rotate", "x", <<angle, origin>>, NoErr, <<>>)
    /\ UNCHANGED y

Reflect(normal, origin) ==
    /\ CanTransform
    /\ x' = reflect(x, normal, origin)
    /\ lastOp' = Op("reflect", "x", <<normal, origin>>, NoErr, <<>>)
    /\ UNCHANGED y

Scale(factor, origin) ==
    /\ CanTransform
    /\ x' = scale(x, factor, origin)
    /\ lastOp' = Op("scale", "x", <<factor, origin>>, NoErr, <<>>)
    /\ UNCHANGED y

\* x._transfer_attributes(y)
Transfer ==
    /\ LET r == transfer_attributes(x, y)
       IN  /\ x' = r.obj
           /\ lastOp' = Op("_transfer_attributes", "x", y, NoErr, r.calls)
    /\ UNCHANGED y

(* --------------------------- dictionaries ----------------------------- *)

EmptyDict == [k \in {} |-> None]

\* the geometry library's own to_dict / from_dict
geometry_to_dict(g) == [type |-> "Geometry", base |-> g.base, ops |-> g.ops]

geometry_from_dict(d) == [base |-> d.base, ops |-> d.ops]

\* Color.to_dict / Color.from_dict: the RGBA components
color_to_dict(c) == [type |-> "Color", r |-> c.r, g |-> c.g, b |-> c.b, a |-> c.a]

color_from_dict(d) == Color(d.r, d.g, d.b, d.a)

\* to_dict(): type tag, geometry, each attribute of the class, and user_data
\* when it is a non-empty mapping
to_dict(self) ==
    [type |-> self.cls, geometry |-> geometry_to_dict(self.geometry)]
    @@ (IF HasColor(self.cls)
        THEN [color |-> color_to_dict(self.color)] ELSE EmptyDict)
    @@ (IF HasDisplayMode(self.cls)
        THEN [display_mode |-> self.display_mode] ELSE EmptyDict)
    @@ (IF HasLine(self.cls)
        THEN [line_width |-> IF self.line_width = default
                             THEN [type |-> "Default"] ELSE self.line_width,
              line_type |-> self.line_type]
        ELSE EmptyDict)
    @@ (IF self.user_data # None /\ self.user_data.items # {}
        THEN [user_data |-> self.user_data] ELSE EmptyDict)

\* the value under key, or Omitted when the mapping has no such key
Get(data, key) == IF key \in DOMAIN data THEN data[key] ELSE Omitted

\* cls.from_dict(data): the type tag is checked, the geometry rebuilt, the
\* attributes passed through the constructor and its setters
from_dict(cls, data) ==
    IF Get(data, "type") # cls
    THEN Fail(Blank(cls), Raised("AssertionError", "type", <<>>))
    ELSE LET color == IF "color" \in DOMAIN data
                      THEN color_from_dict(data.color) ELSE Omitted
             lw == IF "line_width" \in DOMAIN data
                   THEN IF data.line_width = [type |-> "Default"]
                        THEN default ELSE data.line_width
                   ELSE Omitted
             r == New(cls, geometry_from_dict(data.geometry),
                      [color |-> color, display_mode |-> Get(data, "display_mode"),
                       line_width |-> lw, line_type |-> Get(data, "line_type")])
         IN  IF r.err # NoErr \/ "user_data" \notin DOMAIN data THEN r
             ELSE Ok([r.obj EXCEPT !.user_data = data.user_data])

\* x = type(x).from_dict(x.to_dict())
RoundTrip ==
    /\ LET d == to_dict(x)
           r == from_dict(x.cls, d)
       IN  /\ x' = IF r.err = NoErr THEN r.obj ELSE x
           /\ lastOp' = Op("from_dict", "x", d, r.err, <<>>)
    /\ UNCHANGED y

(* --------------------------- specifications --------------------------- *)

\* one accepted and one rejected value for the attributes a run is not about
FewArgs(cls) == {a \in CtorArgs(cls) : a.display_mode = Omitted
                                       /\ a.line_width = Omitted
                                       /\ a.line_type = Omitted}

FewOtherArgs(cls) == {a \in OtherArgs(cls) : a = NoArgs \/ a.color.a # 255}

FewModes == {Str(<<"w","i","r","e","f","r","a","m","e">>), Str(<<"S","o","l","i","d">>)}

FewWidths == {PyInt(MaxWidth), PyInt(0)}

FewTypes == {Str(<<"d","a","s","h","e","d">>), Str(<<"W","a","v","y">>)}

\* every operation of the wrapper, on a wrapper of any class
Next ==
    \/ \E a \in FewArgs(x.cls) : Construct(a)
    \/ \E a \in FewOtherArgs(y.cls) : ConstructOther(a)
    \/ \E v \in ColorInputs : SetColor(v)
    \/ \E v \in FewModes : SetDisplayMode(v)
    \/ \E v \in FewWidths : SetLineWidth(v)
    \/ \E v \in FewTypes : SetLineType(v)
    \/ Move(Vec)
    \/ \E a \in Angles : Rotate(a, Origin)
    \/ Reflect(Vec, Origin)
    \/ \E f \in Factors : Scale(f, Omitted)
    \/ Transfer

Spec == Init /\ [][Next]_vars

\* construction and the validated setters, on every offered value
NextAttr ==
    \/ \E a \in CtorArgs(x.cls) : Construct(a)
    \/ \E v \in ColorInputs : SetColor(v)
    \/ \E v \in DisplayModeInputs : SetDisplayMode(v)
    \/ \E v \in WidthInputs : SetLineWidth(v)
    \/ \E v \in LineTypeInputs : SetLineType(v)
    \/ \E v \in UserDataInputs : SetUserData(v)

SpecAttr == Init /\ [][NextAttr]_vars

\* the transforms, on wrappers of every attribute level
NextGeom ==
    \/ \E a \in OtherArgs(x.cls) : Construct(a)
    \/ \E v \in UserDataInputs : SetUserData(v)
    \/ Move(Vec)
    \/ \E a \in Angles \cup {180} : Rotate(a, Origin)
    \/ Reflect(Vec, Origin)
    \/ \E f \in Factors, o \in {Omitted, Origin} : Scale(f, o)

SpecGeom == Init /\ [][NextGeom]_vars

\* _transfer_attributes between two wrappers of one class
NextTransfer ==
    \/ \E a \in CtorArgs(x.cls) : Construct(a)
    \/ \E a \in CtorArgs(y.cls) : ConstructOther(a)
    \/ \E v \in UserDataInputs : SetUserData(v)
    \/ Move(Vec)
    \/ Transfer

SpecTransfer == Init /\ [][NextTransfer]_vars

\* the setters and the dictionary round trip
NextDict ==
    \/ NextAttr
    \/ RoundTrip

SpecDict == Init /\ [][NextDict]_vars

(* ------------------------------ properties ---------------------------- *)

Range(seq) == {seq[i] : i \in 1..Len(seq)}

Fields == {"cls", "geometry", "user_data", "color", "display_mode",
           "line_width", "line_type"}

\* v is a text that equals a member of keys when both are lower-cased
Matches(keys, v) ==
    v.t = "str" /\ \E k \in Range(keys) : Lower(k.s) = Lower(v.s)

\* the member of keys that v names
Canon(keys, v) == CHOOSE k \in Range(keys) : Lower(k.s) = Lower(v.s)

\* the last call was name, made on x
Called(name) == lastOp.name = name /\ lastOp.on = "x"

\* C1: a wrapper that has a color always stores a concrete Color, never None;
\* assigning None, or constructing with the color left out or None, stores
\* opaque black (0, 0, 0, 255).
C1_ColorAlwaysConcrete ==
    /\ \A w \in {x, y} : HasColor(w.cls) => w.color # None /\ w.color.t = "Color"
    /\ HasColor(x.cls) =>
        /\ (Called("color") /\ lastOp.arg = None) =>
                (lastOp.err = NoErr /\ x.color = [t |-> "Color", r |-> 0, g |-> 0,
                                                  b |-> 0, a |-> 255])
        /\ (Called("__init__") /\ lastOp.err = NoErr
                /\ lastOp.arg.color \in {Omitted, None}) =>
                x.color = [t |-> "Color", r |-> 0, g |-> 0, b |-> 0, a |-> 255]

\* None assigned to the color of a wrapper that was transformed and had
\* another color before
C1_Witness ==
    /\ Called("color") /\ lastOp.arg = None
    /\ x.geometry.ops # <<>>
    /\ x.color = Black

\* C2: a text matching a member in any casing is accepted and stored as the
\* canonical-cased member; the stored line_type is always one of LINE_TYPES and
\* the stored display_mode always one of DISPLAY_MODES.
C2_EnumCanonical ==
    /\ HasLine(x.cls) => x.line_type \in Range(LINE_TYPES)
    /\ HasDisplayMode(x.cls) => x.display_mode \in Range(DISPLAY_MODES)
    /\ (Called("line_type") /\ Matches(LINE_TYPES, lastOp.arg)) =>
            (lastOp.err = NoErr /\ x.line_type = Canon(LINE_TYPES, lastOp.arg))
    /\ (Called("display_mode") /\ Matches(DISPLAY_MODES, lastOp.arg)) =>
            (lastOp.err = NoErr /\ x.display_mode = Canon(DISPLAY_MODES, lastOp.arg))

\* a line_type typed in another casing than its member was stored
C2_Witness ==
    /\ Called("line_type") /\ lastOp.err = NoErr
    /\ lastOp.arg # x.line_type
    /\ Lower(lastOp.arg.s) = Lower(x.line_type.s)

\* C3: every value that matches no member, given to the line_type or
\* display_mode setter or to the constructor, raises a ValueError listing the
\* valid set: unknown text, empty text, None or a number alike.
C3_UnrecognizedRaisesValueError ==
    /\ (Called("line_type") /\ ~Matches(LINE_TYPES, lastOp.arg)) =>
            (lastOp.err.kind = "ValueError" /\ lastOp.err.valid = LINE_TYPES)
    /\ (Called("display_mode") /\ ~Matches(DISPLAY_MODES, lastOp.arg)) =>
            (lastOp.err.kind = "ValueError" /\ lastOp.err.valid = DISPLAY_MODES)
    /\ (Called("__init__") /\ HasLine(x.cls) /\ lastOp.arg.line_type # Omitted
            /\ ~Matches(LINE_TYPES, lastOp.arg.line_type)) =>
            (lastOp.err.kind = "ValueError" /\ lastOp.err.valid = LINE_TYPES)
    /\ (Called("__init__") /\ HasDisplayMode(x.cls)
            /\ lastOp.arg.display_mode # Omitted
            /\ ~Matches(DISPLAY_MODES, lastOp.arg.display_mode)) =>
            (lastOp.err.kind = "ValueError" /\ lastOp.err.valid = DISPLAY_MODES)

\* a stored line_width: the sentinel, or a float greater than zero
WidthOk(w) == w = default \/ (w.t = "float" /\ w.tenths > 0)

\* C4: the stored line_width is the sentinel or a number greater than zero;
\* assigning the sentinel stores it, assigning a number above zero stores a
\* value equal to it, and zero or a negative number is rejected with a
\* ValueError naming 'line width' and stores nothing.
C4_LineWidth ==
    /\ [](HasLine(x.cls) =>
            /\ WidthOk(x.line_width)
            /\ (Called("line_width") /\ lastOp.arg = default) =>
                    (lastOp.err = NoErr /\ x.line_width = default)
            /\ (Called("line_width") /\ IsNumber(lastOp.arg)
                    /\ lastOp.arg.tenths > 0) =>
                    (lastOp.err = NoErr /\ PyEq(x.line_width, lastOp.arg))
            /\ (Called("line_width") /\ IsNumber(lastOp.arg)
                    /\ lastOp.arg.tenths <= 0) =>
                    (lastOp.err.kind = "ValueError"
                     /\ lastOp.err.field = "line width"))
    /\ [][(lastOp'.name = "line_width" /\ IsNumber(lastOp'.arg)
              /\ lastOp'.arg.tenths <= 0) => x' = x]_vars

\* the whole number MaxWidth was assigned and reads back equal to it
C4_Witness ==
    /\ Called("line_width") /\ lastOp.arg = PyInt(MaxWidth)
    /\ lastOp.err = NoErr
    /\ PyEq(x.line_width, PyInt(MaxWidth))

\* C5: for every wrapper x, from_dict(x.to_dict()) succeeds, has the class of
\* x, and its to_dict() equals x.to_dict().
C5_RoundTrip ==
    LET d == to_dict(x)
        r == from_dict(x.cls, d)
    IN  /\ r.err = NoErr
        /\ r.obj.cls = x.cls
        /\ to_dict(r.obj) = d

\* a line-like wrapper with an explicit width, a non-default type and
\* user_data went through the round trip
C5_Witness ==
    /\ Called("from_dict") /\ lastOp.err = NoErr
    /\ HasLine(x.cls)
    /\ x.line_width # default
    /\ x.line_type # Continuous
    /\ x.user_data # None

\* C6: a transform replaces the geometry by what the geometry's own operation
\* returns (rotate with the angle in radians, the others with their arguments
\* as given) and leaves every attribute and user_data as they were.
C6_TransformsOnlyGeometry ==
    [][(lastOp'.name \in {"move", "rotate", "reflect", "scale"}) =>
        LET a == lastOp'.arg
        IN  /\ x'.geometry =
                CASE lastOp'.name = "move" -> GeomMove(x.geometry, a[1])
                  [] lastOp'.name = "rotate" ->
                        GeomRotate(x.geometry, (a[1] * 3141593) \div 180000, a[2])
                  [] lastOp'.name = "reflect" -> GeomReflect(x.geometry, a[1], a[2])
                  [] lastOp'.name = "scale" ->
                        GeomScale(x.geometry, a[1],
                                  IF a[2] = Omitted THEN None ELSE a[2])
            /\ \A f \in Fields \ {"geometry"} : x'[f] = x[f]
            /\ y' = y]_vars

\* a coloured wrapper with user_data was rotated after another transform
C6_Witness ==
    /\ Called("rotate")
    /\ Len(x.geometry.ops) >= 2
    /\ HasColor(x.cls) /\ x.color # Black
    /\ x.user_data # None

\* the documented default of each attribute
DocumentedDefault(f) ==
    CASE f = "color" -> [t |-> "Color", r |-> 0, g |-> 0, b |-> 0, a |-> 255]
      [] f = "display_mode" -> Str(<<"S","u","r","f","a","c","e">>)
      [] f = "line_type" -> Str(<<"C","o","n","t","i","n","u","o","u","s">>)
      [] f = "line_width" -> default

\* the value an attribute holds after value was accepted for it
Stored(f, value) ==
    CASE f = "color" -> IF value = None THEN DocumentedDefault(f) ELSE value
      [] f = "display_mode" -> Canon(DISPLAY_MODES, value)
      [] f = "line_type" -> Canon(LINE_TYPES, value)
      [] f = "line_width" -> IF value = default THEN default
                             ELSE [t |-> "float", tenths |-> value.tenths]

\* the attributes a class has
Attributes(cls) ==
    (IF HasColor(cls) THEN {"color"} ELSE {})
    \cup (IF HasDisplayMode(cls) THEN {"display_mode"} ELSE {})
    \cup (IF HasLine(cls) THEN {"line_width", "line_type"} ELSE {})

\* C7: after construction every attribute left out holds its documented default
\* (black, 'Surface', 'Continuous', the sentinel) and every attribute passed
\* holds the passed, canonicalized value.
C7_ConstructorDefaults ==
    (Called("__init__") /\ lastOp.err = NoErr) =>
        /\ \A f \in Attributes(x.cls) :
              x[f] = IF lastOp.arg[f] = Omitted THEN DocumentedDefault(f)
                     ELSE Stored(f, lastOp.arg[f])
        /\ x.geometry = Geometry("g")

\* a line-like wrapper built with a line_type only
C7_Witness ==
    /\ Called("__init__") /\ lastOp.err = NoErr
    /\ HasLine(x.cls)
    /\ lastOp.arg.line_type # Omitted /\ lastOp.arg.color = Omitted
    /\ x.line_type # Continuous
    /\ x.color = Black /\ x.line_width = default

SetterNames == {"color", "display_mode", "line_width", "line_type"}

\* C8: an accepted assignment makes the attribute read the canonicalized value
\* assigned and changes nothing else; a step that is no accepted assignment to
\* an attribute, nor a construction, leaves that attribute as it was.
C8_AssignmentReflected ==
    [][/\ (lastOp'.name \in SetterNames /\ lastOp'.err = NoErr) =>
            /\ x'[lastOp'.name] = Stored(lastOp'.name, lastOp'.arg)
            /\ \A f \in Fields \ {lastOp'.name} : x'[f] = x[f]
       /\ \A f \in SetterNames :
            (lastOp'.name \notin {f, "__init__"} \/ lastOp'.err # NoErr)
                => x'[f] = x[f]]_vars

\* color and display_mode were changed after construction, as in the test
C8_Witness ==
    /\ Called("display_mode") /\ lastOp.err = NoErr
    /\ x.display_mode = Str(<<"W","i","r","e","f","r","a","m","e">>)
    /\ x.color = Blue

\* C9 as stated: after x._transfer_attributes(y) the attributes of the class
\* are equal on x and y, and the method of each subclass reaches the transfer
\* method of its parent class.
C9_TransferReachesParent ==
    Called("_transfer_attributes") =>
        /\ \A f \in Attributes(x.cls) : x[f] = y[f]
        /\ x.cls \in {SingleColorModeBase2D, LineCurveBase2D} =>
                SingleColorBase2D \in Range(lastOp.calls)

\* C9 amended: after x._transfer_attributes(y) every attribute of the class is
\* equal on x and y, y and the geometry and user_data of x are unchanged; only
\* the method of the class of x runs, no parent method is called.
C9_TransferCopiesAll ==
    /\ [](Called("_transfer_attributes") =>
            /\ \A f \in Attributes(x.cls) : x[f] = y[f]
            /\ lastOp.calls = <<x.cls>>)
    /\ [][lastOp'.name = "_transfer_attributes" =>
            /\ y' = y
            /\ \A f \in Fields \ Attributes(x.cls) : x'[f] = x[f]]_vars

\* a line-like wrapper took three attributes that all differed from its own
C9_Witness ==
    /\ Called("_transfer_attributes")
    /\ HasLine(x.cls)
    /\ x.color # Black /\ x.line_width # default /\ x.line_type # Continuous
    /\ x.geometry.ops # <<>>
    /\ x.user_data # None

\* the values each setter must reject, as the claim lists them
Rejected(name, value) ==
    CASE name = "color" -> value # None /\ value.t # "Color"
      [] name = "line_width" -> IsNumber(value) /\ value.tenths <= 0
      [] name = "line_type" -> value.t = "str" /\ ~Matches(LINE_TYPES, value)
      [] name = "display_mode" -> value.t = "str" /\ ~Matches(DISPLAY_MODES, value)

\* C10: a setter given a value it must reject raises an error and leaves the
\* targeted attribute, every other attribute, the geometry and user_data as
\* they were.
C10_RejectedLeavesUnchanged ==
    [][(lastOp'.name \in SetterNames /\ Rejected(lastOp'.name, lastOp'.arg)) =>
            (lastOp'.err # NoErr /\ x' = x /\ y' = y)]_vars

\* a rejected line width on a wrapper that holds non-default values
C10_Witness ==
    /\ Called("line_width") /\ lastOp.err # NoErr
    /\ x.line_width # default
    /\ x.color # Black
    /\ x.user_data # None

====
